---- MODULE Spec2Model ----
(***************************************************************************)
(* Model of ohlcv_to_csv.py: the retry-wrapped fetch (fetch_candles), the  *)
(* pagination loop of main() and the merge-and-persist step.               *)
(*                                                                         *)
(* A candle is <<time, value>>: candles[i][0] of the source is c[1] here,  *)
(* and the five float columns (open, high, low, close, volume), which the  *)
(* program treats alike, are one value.  Values are in units of 1e-9, so   *)
(* that the "%.8f" formatting of to_csv is a rounding to a multiple of 10. *)
(* Timestamps are scaled: the epoch floor is 1, and 0 is the one timestamp *)
(* below it.  Python's None is the number -1.                              *)
(***************************************************************************)
EXTENDS Integers, Sequences, FiniteSets, TLC

\* ------------------------------------------------------------------ bounds
MaxTime   == 2      \* provider timestamps are 0..MaxTime
MaxPage   == 2      \* candles in a page of the provider that may return any page
MaxStored == 2      \* rows of the file found at the first run
MaxIter   == 3      \* page fetches per run
MaxRuns   == 2      \* successive runs of the program

MaxClock  == MaxTime + 1

\* --------------------------------------------------------------- constants
max_retries == 5
BYBIT_MAX_CANDLES_PER_FETCH == 1000
EpochFloor  == 1
None        == -1

\* Values the provider reports, and values found in the first file (already
\* formatted); they differ, so that a stored and a fetched copy of one
\* timestamp can be told apart after formatting.
RawValues     == {24}
InitialValues == {10}
Times         == 0..MaxTime

\* ----------------------------------------------------------------- helpers
Last(s)  == s[Len(s)]
Front(s) == SubSeq(s, 1, Len(s) - 1)
Min(a, b) == IF a < b THEN a ELSE b

SeqsUpTo(S, n) == UNION {[1..k -> S] : k \in 0..n}

\* Python truthiness of an Optional[int]: None and 0 are falsy.
Truthy(x) == x # None /\ x # 0

\* "%.8f": round to 8 decimals (values are in units of 1e-9).
FloatFormat(v) == ((v + 5) \div 10) * 10

Candles      == Times \X RawValues
Rows         == Times \X InitialValues

Mut_validate_timeframe(tf) == TRUE
validate_timeframe(tf) ==
    tf \in {"1m", "3m", "5m", "15m", "30m", "1h", "2h", "4h", "8h", "12h",
            "1d", "3d", "1w", "1M"}

\* Backoff slept after failed attempt a.
MutBackoff(a) == 2 * a
Backoff(a) == 2 ^ a

\* range(1, max_retries + 1) is used up after attempt a.
MutExhausted(a) == a = max_retries - 1
MutExhaustedLate(a) == a = max_retries + 1
Exhausted(a) == a = max_retries

\* pd.read_csv: the rows of the file.
ReadCsv(f) == f.rows

\* Keep the first row of each time.
RECURSIVE KeepFirst(_)
KeepFirst(rows) ==
    IF rows = <<>> THEN <<>>
    ELSE LET rest == KeepFirst(Front(rows))
             r    == Last(rows)
         IN IF \E i \in 1..Len(rest) : rest[i][1] = r[1]
            THEN rest ELSE Append(rest, r)

\* Keep the last row of each time.
RECURSIVE KeepLast(_)
KeepLast(rows) ==
    IF rows = <<>> THEN <<>>
    ELSE LET rest == KeepLast(Tail(rows))
             r    == Head(rows)
         IN IF \E i \in 1..Len(rest) : rest[i][1] = r[1]
            THEN rest ELSE <<r>> \o rest

\* DataFrame.drop_duplicates("time"), keep="first" by default.
MutNoDropDuplicates(rows) == rows
MutDropDuplicatesLast(rows) == KeepLast(rows)
DropDuplicates(rows) == KeepFirst(rows)

\* Insert r after the rows whose time is <= r's (stable).
RECURSIVE InsertSorted(_, _)
InsertSorted(r, s) ==
    IF s = <<>> THEN <<r>>
    ELSE IF Last(s)[1] <= r[1] THEN Append(s, r)
    ELSE Append(InsertSorted(r, Front(s)), Last(s))

RECURSIVE InsertionSort(_)
InsertionSort(rows) ==
    IF rows = <<>> THEN <<>>
    ELSE InsertSorted(Last(rows), InsertionSort(Front(rows)))

\* DataFrame.sort_values("time").
MutSortValues(rows) == rows
SortValues(rows) == InsertionSort(rows)

\* pd.concat([df_old, df_new]) if not df_old.empty else df_new
MutConcat(old, new) == new \o old
Concat(old, new) == IF old # <<>> THEN old \o new ELSE new

\* DataFrame.to_csv(float_format="%.8f"): time as is, floats formatted.
ToCsv(rows) == [i \in 1..Len(rows) |-> <<rows[i][1], FloatFormat(rows[i][2])>>]

\* The counts of lines 109-110: len(df_final), len(all_candles).
Report(final, new) == <<Len(final), Len(new)>>

MergeAndPersist(old, new) == ToCsv(SortValues(DropDuplicates(Concat(old, new))))

\* since = last_timestamp if last_timestamp else parse8601('2010-01-01')
Since(lt) == IF Truthy(lt) THEN lt ELSE EpochFloor

\* A provider with a fixed history h (ascending): the first limit candles
\* at or after since.
HistoryPage(h, s) ==
    LET sel == SelectSeq(h, LAMBDA c : c[1] >= s)
    IN SubSeq(sel, 1, Min(BYBIT_MAX_CANDLES_PER_FETCH, Len(sel)))

Ascending(s) == \A i \in 1..Len(s) - 1 : s[i][1] < s[i + 1][1]

NoFile == [exists |-> FALSE, rows |-> <<>>]

\* to_csv creates the file, header included, whatever the number of rows.
MutFileOf(rows) == [exists |-> rows # <<>>, rows |-> rows]
FileOf(rows) == [exists |-> TRUE, rows |-> rows]

VARIABLES
    timeframe,      \* args.timeframe
    mode,           \* "any": the provider may return any page;
                    \* "history": it serves a fixed history and a fixed time
    history,        \* the fixed history (mode "history")
    clock,          \* provider time (exchange.milliseconds())
    file,           \* the CSV file: [exists, rows]
    file0,          \* the file as it was when the current run started
    run,            \* number of the current run
    pc,             \* position of main()
    err,            \* exception that ended the run
    df_old, last_timestamp, previous_last, since, all_candles, candles,
    attempt,        \* fetch_candles: loop variable
    calls,          \* provider calls made by the current fetch_candles
    fails,          \* failed provider calls of the current fetch_candles
    backoff,        \* total backoff slept by the current fetch_candles
    delays,         \* rate-limit delays slept by the current fetch_candles
    iter,           \* page fetches returned in this run
    fetch_time,     \* provider time of the call that returned candles
    trimmed,        \* the last page processed had its last candle popped
    unclosed,       \* accepted candles with time >= fetch time of their call
    popped,         \* what the trim removed from the last page processed
    io,             \* this run: exchange created, reads and writes of the file
    reported        \* the two counts printed at the end, <<saved, fetched>>

vars == <<timeframe, mode, history, clock, file, file0, run, pc, err,
          df_old, last_timestamp, previous_last, since, all_candles, candles,
          attempt, calls, fails, backoff, delays, iter, fetch_time, trimmed,
          unclosed, popped, io, reported>>

provider == <<timeframe, mode, history>>
locals   == <<df_old, last_timestamp, previous_last, since, all_candles,
              candles, iter, fetch_time, trimmed, unclosed, popped>>
retry    == <<attempt, calls, fails, backoff, delays>>

\* Files a first run may find.
StoredFiles == {NoFile} \cup {FileOf(r) : r \in SeqsUpTo(Rows, MaxStored)}

\* Fixed histories: ascending, at or after the epoch floor.
Histories == {h \in SeqsUpTo((1..MaxTime) \X RawValues, MaxTime) : Ascending(h)}

ScenarioStored  == << <<100, 10>>, <<200, 10>>, <<300, 10>> >>
ScenarioHistory == << <<300, 24>>, <<400, 24>>, <<500, 24>> >>
ScenarioFinal   == << <<100, 10>>, <<200, 10>>, <<300, 10>>,
                      <<400, 20>>, <<500, 20>> >>

NoIo == [exchange |-> FALSE, reads |-> 0, writes |-> 0]

StartOfRun ==
    /\ pc = "start" /\ err = "none"
    /\ popped = <<>> /\ io = NoIo /\ reported = <<>>
    /\ df_old = <<>> /\ last_timestamp = None /\ previous_last = None
    /\ since = None /\ all_candles = <<>> /\ candles = <<>>
    /\ attempt = 1 /\ calls = 0 /\ fails = 0 /\ backoff = 0 /\ delays = 0
    /\ iter = 0 /\ fetch_time = None /\ trimmed = FALSE /\ unclosed = {}

Init ==
    /\ timeframe \in {"1h", "7m"}
    /\ \/ /\ mode = "any" /\ history = <<>>
          /\ clock \in 0..MaxClock
          /\ file \in StoredFiles
       \/ /\ mode = "history" /\ history \in Histories
          /\ clock \in 1..MaxClock
          /\ file \in StoredFiles
       \/ /\ mode = "history" /\ history = ScenarioHistory
          /\ clock = 501
          /\ file = FileOf(ScenarioStored)
    /\ file0 = file
    /\ run = 1
    /\ StartOfRun

\* main(), lines 49-75: validate, create the exchange, read the file,
\* compute the first since.
Startup ==
    /\ pc = "start"
    /\ IF ~validate_timeframe(timeframe)
       THEN /\ pc' = "exit"
            /\ UNCHANGED <<err, df_old, last_timestamp, since, io>>
       ELSE IF file.exists
       THEN /\ io' = [io EXCEPT !.exchange = TRUE, !.reads = @ + 1]
            /\ IF ReadCsv(file) = <<>>
               THEN /\ pc' = "aborted" /\ err' = "IndexError"
                    /\ UNCHANGED <<df_old, last_timestamp, since>>
               ELSE /\ df_old' = ReadCsv(file)
                    /\ last_timestamp' = Last(ReadCsv(file))[1]
                    /\ since' = Since(last_timestamp')
                    /\ pc' = "fetching"
                    /\ err' = err
       ELSE /\ io' = [io EXCEPT !.exchange = TRUE]
            /\ df_old' = <<>>
            /\ last_timestamp' = None
            /\ since' = Since(None)
            /\ pc' = "fetching"
            /\ err' = err
    /\ UNCHANGED <<provider, clock, file, file0, run, previous_last,
                   all_candles, candles, iter, fetch_time, trimmed, unclosed,
                   popped, reported, retry>>

\* fetch_candles, lines 31-44: one attempt whose provider call raises.
FetchFail ==
    /\ pc = "fetching"
    /\ iter < MaxIter
    /\ calls' = calls + 1
    /\ delays' = delays + 1
    /\ fails' = fails + 1
    /\ backoff' = backoff + Backoff(attempt)
    /\ IF Exhausted(attempt)
       THEN /\ pc' = "aborted" /\ err' = "ConnectionError"
            /\ attempt' = attempt
       ELSE /\ attempt' = attempt + 1
            /\ UNCHANGED <<pc, err>>
    /\ UNCHANGED <<provider, clock, file, file0, run, locals, io, reported>>

\* fetch_candles, lines 31-40: one attempt whose provider call succeeds, and
\* fetch_candles returns.  The page it returns is drawn where main() first
\* looks at it, in ProcessPage.
FetchOk ==
    /\ pc = "fetching"
    /\ iter < MaxIter
    /\ fetch_time' = clock
    /\ calls' = calls + 1
    /\ delays' = delays + 1
    /\ iter' = iter + 1
    /\ pc' = "page"
    /\ UNCHANGED <<provider, clock, file, file0, run, err, df_old, last_timestamp,
                   previous_last, since, all_candles, trimmed, unclosed,
                   attempt, fails, backoff, candles, popped, io, reported>>

\* The page with its last candle popped when it is not before now.
MutTrim(page, now) ==
    IF Last(page)[1] >= now THEN SelectSeq(page, LAMBDA c : c[1] < now)
                            ELSE page
Trim(page, now) == IF Last(page)[1] >= now THEN Front(page) ELSE page

\* if previous_last and candles[-1][0] <= previous_last
Stalled(page, prev) == Truthy(prev) /\ Last(page)[1] <= prev

\* main(), lines 78-100 and 75: the loop body on the page raw that
\* fetch_candles returned; now is exchange.milliseconds().  The locals of
\* fetch_candles are gone, the next call starts with attempt 1.
ProcessPage ==
    /\ pc = "page"
    /\ \E raw \in (IF mode = "any" THEN SeqsUpTo(Candles, MaxPage)
                                   ELSE {HistoryPage(history, since)}) :
       IF raw = <<>>
       THEN /\ pc' = "merge"
            /\ trimmed' = FALSE
            /\ popped' = <<>>
            /\ candles' = raw
            /\ fetch_time' = None
            /\ UNCHANGED <<clock, err, all_candles, previous_last,
                           last_timestamp, since, unclosed>>
       ELSE \E now \in (IF mode = "any" THEN clock..MaxClock ELSE {clock}) :
            LET page == Trim(raw, now) IN
            /\ clock' = now
            /\ candles' = page
            /\ trimmed' = (page # raw)
            /\ popped' = SubSeq(raw, Len(page) + 1, Len(raw))
            /\ fetch_time' = None
            /\ IF page = <<>>
               THEN \* candles[-1] of an empty list, line 91 or line 96
                    /\ pc' = "aborted" /\ err' = "IndexError"
                    /\ UNCHANGED <<all_candles, previous_last, last_timestamp,
                                   since, unclosed>>
               ELSE IF Stalled(page, previous_last)
               THEN /\ pc' = "merge"
                    /\ UNCHANGED <<err, all_candles, previous_last,
                                   last_timestamp, since, unclosed>>
               ELSE /\ iter < MaxIter
                    /\ all_candles' = all_candles \o page
                    /\ previous_last' = Last(page)[1]
                    /\ last_timestamp' = Last(page)[1] + 1
                    /\ since' = Since(last_timestamp')
                    /\ unclosed' = unclosed \cup
                         {page[i] : i \in {j \in 1..Len(page) :
                                             page[j][1] >= fetch_time}}
                    /\ pc' = "fetching"
                    /\ err' = err
    /\ attempt' = 1 /\ calls' = 0 /\ fails' = 0 /\ backoff' = 0 /\ delays' = 0
    /\ UNCHANGED <<provider, file, file0, run, df_old, iter, io, reported>>

\* A save after every accepted page.
MutMergePersist ==
    /\ pc \in {"merge", "fetching"}
    /\ pc = "fetching" =>
          (all_candles # <<>>
              /\ file # FileOf(MergeAndPersist(df_old, all_candles)))
    /\ file' = FileOf(MergeAndPersist(df_old, all_candles))
    /\ io' = [io EXCEPT !.writes = @ + 1]
    /\ reported' = Report(MergeAndPersist(df_old, all_candles), all_candles)
    /\ pc' = IF pc = "merge" THEN "done" ELSE pc
    /\ UNCHANGED <<provider, clock, file0, run, err, locals, retry>>

\* No save when nothing was fetched.
MutMergePersistSkip ==
    /\ pc = "merge"
    /\ file' = IF all_candles = <<>> THEN file
               ELSE FileOf(MergeAndPersist(df_old, all_candles))
    /\ io' = IF all_candles = <<>> THEN io ELSE [io EXCEPT !.writes = @ + 1]
    /\ reported' = Report(MergeAndPersist(df_old, all_candles), all_candles)
    /\ pc' = "done"
    /\ UNCHANGED <<provider, clock, file0, run, err, locals, retry>>

\* main(), lines 102-108: merge old and new, write the file.
MergePersist ==
    /\ pc = "merge"
    /\ file' = FileOf(MergeAndPersist(df_old, all_candles))
    /\ io' = [io EXCEPT !.writes = @ + 1]
    /\ reported' = Report(MergeAndPersist(df_old, all_candles), all_candles)
    /\ pc' = "done"
    /\ UNCHANGED <<provider, clock, file0, run, err, locals, retry>>

\* The program is started again on the file the completed run left.  With a
\* provider that may return any page a later run is a first run on another
\* file, so only the fixed-history provider is followed over several runs.
NextRun ==
    /\ pc = "done"
    /\ mode = "history"
    /\ run < MaxRuns
    /\ run' = run + 1
    /\ file0' = file
    /\ pc' = "start" /\ err' = "none"
    /\ df_old' = <<>> /\ last_timestamp' = None /\ previous_last' = None
    /\ since' = None /\ all_candles' = <<>> /\ candles' = <<>>
    /\ attempt' = 1 /\ calls' = 0 /\ fails' = 0 /\ backoff' = 0 /\ delays' = 0
    /\ iter' = 0 /\ fetch_time' = None /\ trimmed' = FALSE /\ unclosed' = {}
    /\ popped' = <<>> /\ io' = NoIo /\ reported' = <<>>
    /\ UNCHANGED <<provider, clock, file>>

Next == Startup \/ FetchFail \/ FetchOk \/ ProcessPage \/ MergePersist \/ NextRun

Spec == Init /\ [][Next]_vars

TypeOK ==
    /\ pc \in {"start", "fetching", "page", "merge", "done", "aborted", "exit"}
    /\ err \in {"none", "IndexError", "ConnectionError"}
    /\ attempt \in 1..max_retries
    /\ iter \in 0..MaxIter
    /\ run \in 1..MaxRuns

\* ------------------------------------------------------ claims' vocabulary
TimesOf(rows) == {rows[i][1] : i \in 1..Len(rows)}
RowsOf(rows)  == {rows[i] : i \in 1..Len(rows)}
FirstRowAt(rows, t) ==
    rows[CHOOSE i \in 1..Len(rows) :
            rows[i][1] = t /\ \A j \in 1..(i - 1) : rows[j][1] # t]

RECURSIVE SumBackoff(_)
SumBackoff(k) == IF k = 0 THEN 0 ELSE SumBackoff(k - 1) + 2 ^ k

RunEnded == pc \in {"done", "aborted"}

\* C1: idempotence.  With a provider serving a fixed history at a fixed time,
\* a run started on the file a completed run left ends normally (unless the
\* provider call itself keeps failing) and leaves the same rows.
IdempotentRun ==
    (mode = "history" /\ run >= 2 /\ RunEnded /\ err # "ConnectionError")
        => (pc = "done" /\ file.rows = file0.rows)

\* C2: unclosed-candle exclusion.  After a completed run no candle that was
\* returned by a call made at a provider time <= its timestamp is in the file
\* (a stored row of the same time aside).
UnclosedExcluded ==
    pc = "done" =>
        \A c \in unclosed :
            c[1] \notin TimesOf(df_old)
                => <<c[1], FloatFormat(c[2])>> \notin RowsOf(file.rows)

\* C3: when the trim pops the only candle of a page, the run goes on (next
\* fetch, or the write); it does not abort.
TrimEmptiedPageContinues ==
    (trimmed /\ candles = <<>>) => pc # "aborted"

\* C4: stall termination.  With a previous page accepted, a (trimmed) page
\* whose last timestamp is <= previous_last sends the loop to the merge in
\* that iteration and adds nothing to all_candles.
StallTerminates ==
    [][(pc = "page" /\ pc' # "page" /\ previous_last # None
            /\ candles' # <<>> /\ Last(candles')[1] <= previous_last)
        => (pc' = "merge" /\ all_candles' = all_candles)]_vars

\* C5: retry then success.  When fetch_candles returns after k failed calls,
\* k < max_retries, it has made k + 1 provider calls and slept a total
\* backoff of 2^1 + ... + 2^k.
RetryThenSuccess ==
    pc = "page" =>
        /\ fails < max_retries
        /\ calls = fails + 1
        /\ backoff = SumBackoff(fails)

RetryThenSuccessWitness ==
    pc = "page" /\ fails = 3 /\ calls = 4 /\ backoff = 14 /\ iter = 2

\* C6: retry exhaustion.  The run that ends with the fatal fetch error has
\* made exactly max_retries provider calls for that page, all failed, and the
\* file is as it was when the run started.
ExhaustionWritesNothing ==
    (pc = "aborted" /\ err = "ConnectionError")
        => (calls = max_retries /\ fails = max_retries /\ file = file0)

ExhaustionWritesNothingWitness ==
    /\ pc = "aborted" /\ err = "ConnectionError"
    /\ all_candles # <<>> /\ file.exists

\* C7: no duplicates.  After a completed run no two rows of the file have the
\* same time.
NoDuplicates ==
    pc = "done" =>
        \A i, j \in 1..Len(file.rows) :
            file.rows[i][1] = file.rows[j][1] => i = j

NoDuplicatesWitness ==
    /\ pc = "done"
    /\ Cardinality(TimesOf(df_old)) < Len(df_old)
    /\ Cardinality(TimesOf(all_candles)) < Len(all_candles)
    /\ TimesOf(df_old) \cap TimesOf(all_candles) # {}
    /\ Len(file.rows) >= 2

\* C8: sorted.  After a completed run the times of the file's rows are
\* strictly ascending.
SortedSeries ==
    pc = "done" => \A i \in 1..(Len(file.rows) - 1) :
                       file.rows[i][1] < file.rows[i + 1][1]

SortedSeriesWitness ==
    /\ pc = "done"
    /\ ~Ascending(df_old)
    /\ \E i \in 1..(Len(all_candles) - 1) :
           all_candles[i][1] > all_candles[i + 1][1]
    /\ Len(file.rows) >= 3

\* C9: overlap rule.  For a time both in the stored series and among the
\* fetched candles the file holds exactly one row, the (first) stored one; in
\* the scenario stored 100,200,300 and fetched 300,400,500 the file is
\* 100..500 with the stored row at 300.
MergeOverlapRule ==
    pc = "done" =>
        /\ \A t \in TimesOf(df_old) \cap TimesOf(all_candles) :
              \E i \in 1..Len(file.rows) :
                  /\ file.rows[i] = <<t, FloatFormat(FirstRowAt(df_old, t)[2])>>
                  /\ \A j \in 1..Len(file.rows) : file.rows[j][1] = t => j = i
        /\ (df_old = ScenarioStored /\ all_candles = ScenarioHistory)
              => file.rows = ScenarioFinal

MergeOverlapRuleWitness ==
    /\ pc = "done" /\ run = 1
    /\ df_old = ScenarioStored /\ all_candles = ScenarioHistory
    /\ file.rows = ScenarioFinal

\* C10: INIT yields a cursor.  The first fetch is issued with since = the
\* time of the last stored row if there is one, else the epoch floor, and
\* the run does not end with an error before the first fetch.
InitYieldsCursor ==
    /\ (pc = "fetching" /\ iter = 0)
          => since = (IF file.exists /\ file.rows # <<>>
                      THEN Last(file.rows)[1] ELSE EpochFloor)
    /\ ~(pc = "aborted" /\ iter = 0 /\ err = "IndexError")

\* C11: empty-history scenario.  With no file at the start, a first page that
\* is empty ends the loop after that one fetch; the run is then written as a
\* file that exists with zero rows, and zero candles are reported.
FirstPageEmpty ==
    /\ run = 1 /\ ~file0.exists /\ iter = 1
    /\ pc \in {"merge", "done", "aborted"} /\ err # "ConnectionError"
    /\ candles = <<>> /\ ~trimmed

EmptyHistory ==
    FirstPageEmpty =>
        /\ pc # "aborted"
        /\ all_candles = <<>>
        /\ pc = "done" => /\ file.exists /\ file.rows = <<>>
                          /\ reported = <<0, 0>>
                          /\ io.writes = 1

EmptyHistoryWitness ==
    FirstPageEmpty /\ pc = "done" /\ file = [exists |-> TRUE, rows |-> <<>>]

\* C12: trim keeps the rest.  When the trim leaves a non-empty page, exactly
\* one candle, the last of the page and not before the provider time, was
\* removed; unless the stall guard fired, the rest is the tail of
\* all_candles, previous_last is its last time and since is that time + 1.
TrimKeepsRest ==
    /\ trimmed => (Len(popped) = 1 /\ popped[1][1] >= clock)
    /\ ~trimmed => popped = <<>>
    /\ (trimmed /\ candles # <<>> /\ pc = "fetching") =>
          /\ Len(all_candles) >= Len(candles)
          /\ SubSeq(all_candles, Len(all_candles) - Len(candles) + 1,
                    Len(all_candles)) = candles
          /\ previous_last = Last(candles)[1]
          /\ last_timestamp = Last(candles)[1] + 1
          /\ since = Last(candles)[1] + 1
    /\ (trimmed /\ candles # <<>> /\ pc = "merge") =>
          Stalled(candles, previous_last)

TrimKeepsRestWitness ==
    /\ pc = "fetching" /\ trimmed /\ Len(candles) = 1
    /\ Len(all_candles) > Len(candles)
    /\ popped[1][1] > Last(candles)[1]

\* C13: storage is written once, at the end.  Until the run is done the file
\* is the file of the start of the run; it is read at most once, in INIT,
\* and changed only by the step from the merge to done; a run that aborts
\* leaves it unchanged.
WrittenOnceAtEnd ==
    /\ [](pc # "done" => (file = file0 /\ io.writes = 0))
    /\ [](io.reads <= 1 /\ io.writes <= 1)
    /\ [][io'.reads > io.reads => pc = "start"]_vars
    /\ [][file' # file => (pc = "merge" /\ pc' = "done")]_vars

WrittenOnceAtEndWitness ==
    /\ pc = "done" /\ io.reads = 1 /\ io.writes = 1
    /\ file # file0 /\ Len(all_candles) >= 2

\* C14: invalid timeframe.  With a timeframe that is not allowed ("7m") the run only
\* goes from its start to a normal exit: no exception, no exchange created,
\* no fetch, no read or write of the file; and only such a run exits so.
InvalidTimeframeHandled ==
    /\ timeframe = "7m" =>
          /\ pc \in {"start", "exit"}
          /\ err = "none"
          /\ io = NoIo
          /\ iter = 0 /\ calls = 0
          /\ file = file0
    /\ pc = "exit" => timeframe = "7m"

InvalidTimeframeHandledWitness ==
    pc = "exit" /\ timeframe = "7m" /\ file.exists /\ file.rows # <<>>

\* C15: cursor advance.  A step that accepts a page appends the (trimmed)
\* page to all_candles, sets previous_last to its last time and since to that
\* time + 1; from the second accepted page on previous_last strictly
\* increases.
CursorAdvances ==
    [][(pc = "page" /\ pc' = "fetching") =>
          /\ candles' # <<>>
          /\ all_candles' = all_candles \o candles'
          /\ previous_last' = Last(candles')[1]
          /\ since' = previous_last' + 1
          /\ previous_last # None => previous_last' > previous_last]_vars

\* C18: pagination terminates.  The loop accepts finitely many pages: every
\* accepted page ends at a time no earlier accepted page ended at, so the
\* pages accepted so far are never more than the distinct times accumulated
\* (which a finite history bounds).
AcceptedPagesBounded ==
    pc = "fetching" => iter <= Cardinality(TimesOf(all_candles))

\* C16: an empty page ends the run normally.  The step that finds the page
\* empty, in whatever iteration, goes to the merge, leaves all_candles and
\* the provider time alone, and the one step the merge can take writes the
\* file from df_old and all_candles.
EmptyPageEndsRun ==
    /\ [][(pc = "page" /\ pc' # "page" /\ candles' = <<>> /\ ~trimmed') =>
             (pc' = "merge" /\ err' = "none"
                 /\ all_candles' = all_candles /\ clock' = clock)]_vars
    /\ [][pc = "merge" =>
             (pc' = "done" /\ file'.exists /\ io'.writes = 1
                 /\ TimesOf(file'.rows) =
                        TimesOf(df_old) \cup TimesOf(all_candles))]_vars

EmptyPageEndsRunWitness ==
    /\ pc = "done" /\ candles = <<>> /\ ~trimmed
    /\ iter >= 2 /\ all_candles # <<>> /\ io.writes = 1

\* C17: the retry budget is per page.  For the page being fetched: at most
\* max_retries provider calls, each after one rate-limit delay; while
\* fetching, every call so far failed and the attempt is the number of
\* failures + 1 (so 1 when a page starts); once returned, the last call is
\* the only success; the fatal error comes only with max_retries failures of
\* that one page.
RetryBudgetPerPage ==
    /\ calls <= max_retries
    /\ delays = calls
    /\ pc = "fetching" => (calls = fails /\ attempt = fails + 1)
    /\ pc = "page" => (calls = fails + 1 /\ fails < max_retries)
    /\ err = "ConnectionError" =>
          (pc = "aborted" /\ fails = max_retries /\ calls = max_retries)
    /\ (pc = "fetching" /\ iter >= 1 /\ calls = 0) => attempt = 1

RetryBudgetPerPageWitness ==
    pc = "page" /\ iter = 2 /\ fails = max_retries - 1 /\ all_candles # <<>>

\* C19: stored rows are kept.  When the stored series is non-empty with
\* unique times, every stored row is a row of the final file, unchanged
\* (for a time also fetched it is the stored copy that stays), and the times
\* of the final file are those stored and those accumulated in the run.
StoredRowsKept ==
    (pc = "done" /\ df_old # <<>>
        /\ Cardinality(TimesOf(df_old)) = Len(df_old)) =>
        /\ RowsOf(df_old) \subseteq RowsOf(file.rows)
        /\ TimesOf(file.rows) = TimesOf(df_old) \cup TimesOf(all_candles)
        /\ Len(file.rows) = Cardinality(TimesOf(file.rows))

StoredRowsKeptWitness ==
    /\ pc = "done" /\ Len(df_old) = 2
    /\ Cardinality(TimesOf(df_old)) = 2
    /\ TimesOf(df_old) \cap TimesOf(all_candles) # {}
    /\ TimesOf(all_candles) \ TimesOf(df_old) # {}
    /\ RowsOf(df_old) \subseteq RowsOf(file.rows)
====
